---- MODULE Spec2Model ----
(***************************************************************************)
(* Model of the criticality classifier, the alert history store, the alert *)
(* dispatcher, the digest and the registration of the destination of       *)
(* src/alert_system.py.                                                    *)
(*                                                                         *)
(* Text is modelled by TLA+ strings, keyword search by substring search on *)
(* the characters, so overlapping keywords ('data breach' / 'breach')      *)
(* behave as in the code.  A value that is not a Python str (pandas reads  *)
(* an empty CSV cell as float NaN) is modelled by the sentinel NaN.        *)
(***************************************************************************)
EXTENDS Integers, Sequences, FiniteSets, TLC

VARIABLES
    cls,        \* harness of is_critical_news: its arguments and its result
    file,       \* alert_history.json on disk
    creds,      \* TRUE iff the three TWILIO_* environment variables are set
    clock,      \* datetime.now(), a counter of the calls made so far
    pc,         \* pc[p]: position of invocation p of check_for_alerts
    batch,      \* batch[p]: news_df, a sequence of rows
    phone,      \* phone[p]: the phone_number argument
    history,    \* history[p]: the dict loaded by load_alert_history
    idx,        \* idx[p]: the row the for loop is at
    critical_items, \* critical_items[p]
    alerts_sent,    \* alerts_sent[p]: the counter of successful sends
    sends,      \* sends[p]: the send_sms_alert calls of the current run
    result,     \* result[p]: what the call returned
    io,         \* io[p]: how the load and the save of the current run went
    prev,       \* what the run that ended last sent: keys saved, rows failed
    dg,         \* harness of get_critical_news_digest / send_digest_alert
    sc,         \* harness of the criticality score of lines 338-350
    rg          \* alert_phone.txt and the last register_phone_for_alerts call

vars == <<cls, file, creds, clock, pc, batch, phone, history, idx,
          critical_items, alerts_sent, sends, result, io, prev, dg, sc, rg>>

dispatcherVars == <<file, creds, clock, pc, batch, phone, history, idx,
                    critical_items, alerts_sent, sends, result, io, prev>>

----------------------------------------------------------------------------
(* Strings *)

NaN == "<float nan>"

isinstance_str(v) == v # NaN

UpperToLower ==
    [A |-> "a", B |-> "b", C |-> "c", D |-> "d", E |-> "e", F |-> "f",
     G |-> "g", H |-> "h", I |-> "i", J |-> "j", K |-> "k", L |-> "l",
     M |-> "m", N |-> "n", O |-> "o", P |-> "p", Q |-> "q", R |-> "r",
     S |-> "s", T |-> "t", U |-> "u", V |-> "v", W |-> "w", X |-> "x",
     Y |-> "y", Z |-> "z"]

RECURSIVE lower(_)
lower(s) ==
    IF Len(s) = 0 THEN ""
    ELSE LET c == SubSeq(s, 1, 1)
         IN  (IF c \in DOMAIN UpperToLower THEN UpperToLower[c] ELSE c)
                 \o lower(SubSeq(s, 2, Len(s)))

\* Python's `a in b` on two strings
str_in(a, b) ==
    \E i \in 1..(Len(b) - Len(a) + 1) : SubSeq(b, i, i + Len(a) - 1) = a

\* str.startswith(prefix)
starts_with(prefix, str) ==
    Len(str) >= Len(prefix) /\ SubSeq(str, 1, Len(prefix)) = prefix

\* Python's `x in l` on a list
list_in(x, l) == \E i \in 1..Len(l) : l[i] = x

\* [k for k in keywords if k.lower() in text]
RECURSIVE matches(_, _)
matches(keywords, text) ==
    IF keywords = <<>> THEN <<>>
    ELSE (IF str_in(lower(Head(keywords)), text) THEN <<Head(keywords)>> ELSE <<>>)
             \o matches(Tail(keywords), text)

\* l[:n]
take(l, n) == SubSeq(l, 1, IF Len(l) < n THEN Len(l) ELSE n)

\* ', '.join(l)
RECURSIVE join(_)
join(l) ==
    IF l = <<>> THEN ""
    ELSE IF Len(l) = 1 THEN l[1]
    ELSE l[1] \o ", " \o join(Tail(l))

----------------------------------------------------------------------------
(* is_critical_news *)

severity_high_keywords ==
    <<"critical", "urgent", "emergency", "severe", "zero-day", "zero day",
      "ransomware", "remote code execution", "data breach", "national security">>

\* the medium tier without the keyword that 'data breach' contains
severity_medium_keywords_no_breach ==
    <<"vulnerability", "exploit", "attack", "compromise", "warning",
      "malware", "backdoor", "data leak", "hack", "phishing campaign">>

severity_medium_keywords ==
    <<"vulnerability", "exploit", "breach", "attack", "compromise", "warning",
      "malware", "backdoor", "data leak", "hack", "phishing campaign">>

severity_low_keywords ==
    <<"alert", "security update", "patch", "advisory", "update available",
      "security issue", "cybersecurity", "threat">>

priority_sources == <<"CERT-In", "NCIIPC", "I4C", "NASSCOM">>

medium_priority_sources ==
    <<"The Economic Times", "The Hindu", "Times of India", "India Today">>

\* a return that leaves the reason out
Verdict_blank(c, r) == [raised |-> FALSE, critical |-> c, reason |-> ""]

\* the pair (is_critical, reason) a return statement of lines 88-104 gives
Verdict(c, r) == [raised |-> FALSE, critical |-> c, reason |-> r]

TypeError == [raised |-> TRUE, critical |-> FALSE, reason |-> "TypeError"]

\* the chain with the keyword-only rule (d) tried first
rule_chain_reordered(source, high_matches, medium_matches, low_matches) ==
    LET all_matches == high_matches \o medium_matches \o low_matches
    IN  IF Len(high_matches) >= 1 /\ Len(medium_matches) >= 1
        THEN Verdict(TRUE, "High and medium severity keywords: "
                 \o high_matches[1] \o ", " \o medium_matches[1])
        ELSE IF list_in(source, priority_sources) /\ Len(high_matches) >= 1
        THEN Verdict(TRUE, "High-priority source (" \o source
                 \o ") with critical keyword: " \o high_matches[1])
        ELSE IF list_in(source, priority_sources) /\ Len(medium_matches) >= 2
        THEN Verdict(TRUE, "High-priority source (" \o source
                 \o ") with multiple medium-severity keywords: "
                 \o join(take(medium_matches, 2)))
        ELSE IF list_in(source, medium_priority_sources) /\ Len(high_matches) >= 1
        THEN Verdict(TRUE, "Medium-priority source (" \o source
                 \o ") with high-severity keyword: " \o high_matches[1])
        ELSE IF Len(all_matches) >= 3
        THEN Verdict(TRUE, "Multiple security keywords: "
                 \o join(take(all_matches, 3)))
        ELSE Verdict(FALSE, "")

\* rule (a) asking for two high-severity keywords
rule_a_two(source, high_matches) ==
    list_in(source, priority_sources) /\ Len(high_matches) >= 2

\* line 88
rule_a(source, high_matches) ==
    list_in(source, priority_sources) /\ Len(high_matches) >= 1

\* rule (e) asking for four keywords
rule_e_four(all_matches) == Len(all_matches) >= 4

\* line 100
rule_e(all_matches) == Len(all_matches) >= 3

\* The if/elif chain of is_critical_news over the three match lists.
rule_chain(source, high_matches, medium_matches, low_matches) ==
    LET all_matches == high_matches \o medium_matches \o low_matches
    IN  IF rule_a(source, high_matches)
        THEN Verdict(TRUE, "High-priority source (" \o source
                 \o ") with critical keyword: " \o high_matches[1])
        ELSE IF list_in(source, priority_sources) /\ Len(medium_matches) >= 2
        THEN Verdict(TRUE, "High-priority source (" \o source
                 \o ") with multiple medium-severity keywords: "
                 \o join(take(medium_matches, 2)))
        ELSE IF list_in(source, medium_priority_sources) /\ Len(high_matches) >= 1
        THEN Verdict(TRUE, "Medium-priority source (" \o source
                 \o ") with high-severity keyword: " \o high_matches[1])
        ELSE IF Len(high_matches) >= 1 /\ Len(medium_matches) >= 1
        THEN Verdict(TRUE, "High and medium severity keywords: "
                 \o high_matches[1] \o ", " \o medium_matches[1])
        ELSE IF rule_e(all_matches)
        THEN Verdict(TRUE, "Multiple security keywords: "
                 \o join(take(all_matches, 3)))
        ELSE Verdict(FALSE, "")

is_critical_news(headline, content, source) ==
    IF ~isinstance_str(headline) \/ ~isinstance_str(content)
    THEN TypeError      \* headline + " " + content raises on a non-str
    ELSE LET combined_text == lower(headline \o " " \o content)
         IN  rule_chain(source,
                        matches(severity_high_keywords, combined_text),
                        matches(severity_medium_keywords, combined_text),
                        matches(severity_low_keywords, combined_text))

----------------------------------------------------------------------------
(* Bounds and the rows the dispatcher is run on *)

MaxBatch == 2       \* longest news_df
MaxClock == 2       \* number of check_for_alerts calls in a behaviour

Procs == {1, 2}     \* invocations of check_for_alerts that may overlap

None == "<None>"

Row(s, h, c, d, u) == [source |-> s, headline |-> h, content |-> c, date |-> d, url |-> u]

rowA   == Row("CERT-In", "Critical flaw in router", "details", "2024-01-01", "")
rowA2  == Row("CERT-In", "Critical flaw in router", "", "2024-01-02", "http://x")
rowN   == Row("Blog", "Weekly notes", "nothing new", "2024-01-01", "")
rowH   == Row("The Hindu", "Data breach: bank hit by ransomware attack", "", "2024-01-03", "")
rowX   == Row("The Hindu:Data breach", " bank hit by ransomware attack", "", "2024-01-03", "")
rowNaN == Row("CERT-In", "Urgent advisory", NaN, "2024-01-04", "")

Rows == {rowA, rowA2, rowN, rowH, rowX, rowNaN}

SeqsUpTo(S, n) == UNION {[1..k -> S] : k \in 0..n}

Batches == SeqsUpTo(Rows, MaxBatch)

Phones == {None, "", "+911234567890"}

\* f"{v}" of a field
fstr(v) == IF v = NaN THEN "nan" ELSE v

\* news_id = f"{row['source']}:{row['headline']}"
news_id(row) == fstr(row.source) \o ":" \o fstr(row.headline)

\* The calls of line 177 and line 184 on each row, evaluated once.
RowId == [row \in Rows |-> news_id(row)]

RowVerdict == [row \in Rows |-> is_critical_news(row.headline, row.content, row.source)]

----------------------------------------------------------------------------
(* format_alert_message, send_sms_alert *)

format_alert_message(news_item) ==
    LET message == "SECURITY ALERT: " \o fstr(news_item.source) \o "\n\n"
                       \o fstr(news_item.headline) \o "\n\nDate: " \o fstr(news_item.date)
    IN  IF news_item.url # "" /\ news_item.url # NaN
        THEN message \o "\n\nMore info: " \o news_item.url
        ELSE message

\* transport: whether client.messages.create returns (TRUE) or raises (FALSE)
send_sms_alert(twilio_set, transport) ==
    IF ~twilio_set THEN FALSE ELSE transport

----------------------------------------------------------------------------
(* The alert history file: load_alert_history, save_alert_history *)

ListVal(l) == [t |-> "list", list |-> l, str |-> ""]
StrVal(s)  == [t |-> "str", list |-> <<>>, str |-> s]
NullVal    == [t |-> "null", list |-> <<>>, str |-> ""]
MissingVal == [t |-> "missing", list |-> <<>>, str |-> ""]

NoCheck    == [t |-> "none", n |-> 0]
BadCheck   == [t |-> "bad", n |-> 0]         \* text that is not an ISO date

isoformat(n) == [t |-> "iso", n |-> n]

\* datetime.fromisoformat: the time, or -1 for ValueError/TypeError
fromisoformat(v) == IF v.t = "iso" THEN v.n ELSE -1

Document(k, a, l) == [kind |-> k, alerts_sent |-> a, last_check |-> l]

AbsentFile  == Document("absent", MissingVal, NoCheck)
InvalidFile == Document("invalid", MissingVal, NoCheck)        \* not JSON
EmptyHistory == Document("object", ListVal(<<>>), NoCheck)

\* a load that forgets what the file holds
load_alert_history_fresh(f, readError) == EmptyHistory

\* readError: open() or read() raises
load_alert_history(f, readError) ==
    IF f.kind = "absent" THEN EmptyHistory
    ELSE IF readError \/ f.kind = "invalid" THEN EmptyHistory
    ELSE f

SaveOutcomes == {"ok", "open_failed", "write_failed"}

\* open(..., 'w') truncates the file before json.dump writes it
save_alert_history(f, h, outcome) ==
    CASE outcome = "ok"           -> h
      [] outcome = "open_failed"  -> f
      [] outcome = "write_failed" -> InvalidFile

already_alerted_never(id, ids) ==
    CASE ids.t = "list" -> "no"
      [] ids.t = "str"  -> "no"
      [] OTHER          -> "TypeError"

\* Python's `news_id in already_alerted_ids`; "TypeError" when it raises
already_alerted(id, ids) ==
    CASE ids.t = "list" -> IF list_in(id, ids.list) THEN "yes" ELSE "no"
      [] ids.t = "str"  -> IF str_in(id, ids.str) THEN "yes" ELSE "no"
      [] OTHER          -> "TypeError"

----------------------------------------------------------------------------
(* check_for_alerts *)

NoResult == [kind |-> "none", items |-> <<>>, any_sent |-> FALSE, exc |-> ""]

Returned(items, any) == [kind |-> "returned", items |-> items, any_sent |-> any, exc |-> ""]

Raised(e) == [kind |-> "raised", items |-> <<>>, any_sent |-> FALSE, exc |-> e]

\* alone: no other invocation was between its load and its save during the run
NoIo == [load |-> "none", save |-> "none", alone |-> TRUE]

\* no run stopped between a send and the save
NoStop == [batch |-> <<>>, phone |-> "<None>", load |-> "none", lost |-> {}]

NoPrev == [sent_saved |-> {}, failed |-> {}, stopped |-> NoStop]

\* `if phone_number:` of line 191
truthy(ph) == ph # None /\ ph # ""

\* keys that count only when last_check holds a date
get_alerts_sent_if_checked(h) ==
    IF h.alerts_sent.t = "missing" \/ h.last_check.t # "iso"
    THEN ListVal(<<>>)
    ELSE h.alerts_sent

\* history.get('alerts_sent', [])
get_alerts_sent(h) == IF h.alerts_sent.t = "missing" THEN ListVal(<<>>) ELSE h.alerts_sent

after_send_on_failure(ids, id, success) ==
    IF ~success THEN ListVal(Append(ids.list, id)) ELSE ids

after_send_always(ids, id, success) == ListVal(Append(ids.list, id))

\* an append made twice over
after_send_twice(ids, id, success) ==
    IF success THEN ListVal(Append(Append(ids.list, id), id)) ELSE ids

\* lines 195-198: the id is appended only when the send succeeded
after_send(ids, id, success) ==
    IF success THEN ListVal(Append(ids.list, id)) ELSE ids

\* a counter that a failed send sets back to zero
count_sent_reset(n, success) == IF success THEN n + 1 ELSE 0

\* lines 195-196: alerts_sent += 1 when the send succeeded
count_sent(n, success) == IF success THEN n + 1 ELSE n

\* how load_alert_history came to its value
load_outcome(f, readError) ==
    IF f.kind = "absent" THEN "default_absent"
    ELSE IF readError \/ f.kind = "invalid" THEN "default_error"
    ELSE "file"

\* the keys a history document holds
Keys(f) == IF f.kind = "object" /\ f.alerts_sent.t = "list"
           THEN {f.alerts_sent.list[i] : i \in 1..Len(f.alerts_sent.list)}
           ELSE {}

SentOk(sent) == {sent[i].id : i \in {j \in 1..Len(sent) : sent[j].ok}}

\* the rows whose send failed while no send for their key succeeded
FailedRows(rows, sent) ==
    {rows[sent[i].i] : i \in {j \in 1..Len(sent) :
                                ~sent[j].ok /\ sent[j].id \notin SentOk(sent)}}

\* what a run that ends without reaching the save leaves behind: the keys it
\* sent, which are in its memory only
Stopped(p, sent) ==
    IF SentOk(sent) = {}
    THEN NoStop
    ELSE [batch |-> batch[p], phone |-> phone[p], load |-> io[p].load,
          lost |-> SentOk(sent)]

\* The return (or the exception) of invocation p.
EndRun(p, res, saveOutcome, sent) ==
    /\ result' = [result EXCEPT ![p] = res]
    /\ io' = [io EXCEPT ![p].save = saveOutcome]
    /\ prev' = [sent_saved |-> IF saveOutcome = "ok" THEN SentOk(sent) ELSE {},
                failed |-> FailedRows(batch[p], sent),
                stopped |-> IF saveOutcome = "none" THEN Stopped(p, sent) ELSE NoStop]

\* Lines 142-173: the call, the load and the set-up of the loop.
Call(p, news_df, phone_number) ==
    /\ pc[p] = "idle"
    /\ clock < MaxClock
    /\ clock' = clock + 1
    /\ batch' = [batch EXCEPT ![p] = news_df]
    /\ phone' = [phone EXCEPT ![p] = phone_number]
    /\ sends' = [sends EXCEPT ![p] = <<>>]
    /\ critical_items' = [critical_items EXCEPT ![p] = <<>>]
    /\ alerts_sent' = [alerts_sent EXCEPT ![p] = 0]
    /\ idx' = [idx EXCEPT ![p] = 1]
    /\ UNCHANGED <<file, creds, cls, dg, sc>>
    /\ IF phone_number = None
       THEN /\ pc' = [pc EXCEPT ![p] = "done"]
            /\ io' = [io EXCEPT ![p] = NoIo]
            /\ history' = [history EXCEPT ![p] = EmptyHistory]
            /\ result' = [result EXCEPT ![p] = Returned(<<>>, FALSE)]
            /\ prev' = NoPrev
       ELSE \E readError \in BOOLEAN :
            LET h == load_alert_history(file, readError)
                now == clock'
                how == [load |-> load_outcome(file, readError), save |-> "none",
                        alone |-> \A q \in Procs \ {p} : pc[q] # "loop"]
            IN  /\ io' = [q \in Procs |->
                             IF q = p THEN how
                             ELSE IF pc[q] = "loop" THEN [io[q] EXCEPT !.alone = FALSE]
                             ELSE io[q]]
                /\ IF h.kind # "object"
                   THEN \* history.get on a value that is not a dict
                        /\ pc' = [pc EXCEPT ![p] = "raised"]
                        /\ history' = [history EXCEPT ![p] = h]
                        /\ result' = [result EXCEPT ![p] = Raised("AttributeError")]
                        /\ prev' = NoPrev
                   ELSE /\ pc' = [pc EXCEPT ![p] = "loop"]
                        /\ history' = [history EXCEPT ![p] =
                               Document("object", get_alerts_sent(h), isoformat(now))]
                        /\ result' = [result EXCEPT ![p] = NoResult]
                        /\ UNCHANGED prev

\* Lines 175-198: one iteration of the for loop.
Step(p) ==
    /\ pc[p] = "loop"
    /\ idx[p] <= Len(batch[p])
    /\ UNCHANGED <<file, creds, clock, batch, phone, cls, dg, sc, rg>>
    /\ LET row == batch[p][idx[p]]
           id  == RowId[row]
           ids == history[p].alerts_sent
           skip == already_alerted(id, ids)
           v   == RowVerdict[row]
           Continue == /\ idx' = [idx EXCEPT ![p] = idx[p] + 1]
                       /\ UNCHANGED <<pc, result, io, prev>>
           Raise(e, sent) ==
                       /\ pc' = [pc EXCEPT ![p] = "raised"]
                       /\ UNCHANGED idx
                       /\ EndRun(p, Raised(e), "none", sent)
       IN  IF skip = "TypeError"
           THEN Raise("TypeError", sends[p])
                /\ UNCHANGED <<history, critical_items, alerts_sent, sends>>
           ELSE IF skip = "yes"
           THEN Continue /\ UNCHANGED <<history, critical_items, alerts_sent, sends>>
           ELSE IF v.raised
           THEN Raise("TypeError", sends[p])
                /\ UNCHANGED <<history, critical_items, alerts_sent, sends>>
           ELSE IF ~v.critical
           THEN Continue /\ UNCHANGED <<history, critical_items, alerts_sent, sends>>
           ELSE /\ critical_items' = [critical_items EXCEPT ![p] = Append(@, row)]
                /\ IF ~truthy(phone[p])
                   THEN Continue /\ UNCHANGED <<history, alerts_sent, sends>>
                   ELSE \E transport \in BOOLEAN :
                        LET message == format_alert_message(row)
                            success == send_sms_alert(creds, transport)
                            sent == Append(sends[p],
                                   [i |-> idx[p], to |-> phone[p], body |-> message,
                                    id |-> id, ok |-> success])
                        IN  /\ sends' = [sends EXCEPT ![p] = sent]
                            /\ alerts_sent' = [alerts_sent EXCEPT ![p] =
                                   count_sent(@, success)]
                            /\ IF success /\ ids.t # "list"
                               THEN \* .append on a str
                                    Raise("AttributeError", sent) /\ UNCHANGED history
                               ELSE /\ history' = [history EXCEPT ![p].alerts_sent =
                                           after_send(ids, id, success)]
                                    /\ Continue

\* Lines 200-207: the save and the return.
Finish(p) ==
    /\ pc[p] = "loop"
    /\ idx[p] > Len(batch[p])
    /\ \E outcome \in SaveOutcomes :
          /\ file' = save_alert_history(file, history[p], outcome)
          /\ EndRun(p, Returned(critical_items[p], alerts_sent[p] > 0), outcome, sends[p])
    /\ pc' = [pc EXCEPT ![p] = "done"]
    /\ UNCHANGED <<creds, clock, batch, phone, history, idx, critical_items,
                   alerts_sent, sends, cls, dg, sc, rg>>

\* The caller has taken the result (or the exception): the frame is gone.
Return(p) ==
    /\ pc[p] \in {"done", "raised"}
    /\ pc' = [pc EXCEPT ![p] = "idle"]
    /\ batch' = [batch EXCEPT ![p] = <<>>]
    /\ phone' = [phone EXCEPT ![p] = None]
    /\ history' = [history EXCEPT ![p] = EmptyHistory]
    /\ idx' = [idx EXCEPT ![p] = 1]
    /\ critical_items' = [critical_items EXCEPT ![p] = <<>>]
    /\ alerts_sent' = [alerts_sent EXCEPT ![p] = 0]
    /\ sends' = [sends EXCEPT ![p] = <<>>]
    /\ result' = [result EXCEPT ![p] = NoResult]
    /\ io' = [io EXCEPT ![p] = NoIo]
    /\ UNCHANGED <<file, creds, clock, prev, cls, dg, sc, rg>>

----------------------------------------------------------------------------
(* The dispatcher, one invocation at a time, on a store that starts absent *)

ClsIdle == [called |-> FALSE, source |-> "", headline |-> "", content |-> "",
            verdict |-> Verdict(FALSE, "")]

DgIdle == [op |-> "none", news_df |-> <<>>, max_items |-> 0, items |-> <<>>,
           to |-> None, ret |-> FALSE, outbox |-> <<>>]

ScIdle == [called |-> FALSE, source |-> "", headline |-> "", content |-> "",
           added |-> "", at |-> "none", score |-> 0, score_added |-> 0]

\* no alert_phone.txt, no registration made, no destination read
RgIdle == [stored |-> "<None>", arg |-> "<None>", called |-> FALSE,
           ret |-> <<FALSE, "">>, last_ok |-> "<None>", read |-> "none"]

InitDispatcher(f) ==
    /\ file = f
    /\ creds \in BOOLEAN
    /\ clock = 0
    /\ pc = [p \in Procs |-> "idle"]
    /\ batch = [p \in Procs |-> <<>>]
    /\ phone = [p \in Procs |-> None]
    /\ history = [p \in Procs |-> EmptyHistory]
    /\ idx = [p \in Procs |-> 1]
    /\ critical_items = [p \in Procs |-> <<>>]
    /\ alerts_sent = [p \in Procs |-> 0]
    /\ sends = [p \in Procs |-> <<>>]
    /\ result = [p \in Procs |-> NoResult]
    /\ io = [p \in Procs |-> NoIo]
    /\ prev = NoPrev

Init ==
    /\ InitDispatcher(AbsentFile)
    /\ cls = ClsIdle
    /\ dg = DgIdle
    /\ sc = ScIdle
    /\ rg = RgIdle

\* A call of check_for_alerts with any batch and any destination.
CallAny(p) ==
    /\ pc[p] = "idle"
    /\ \E news_df \in Batches, phone_number \in Phones : Call(p, news_df, phone_number)
    /\ UNCHANGED rg

Next ==
    \/ CallAny(1)
    \/ Step(1)
    \/ Finish(1)
    \/ Return(1)

Spec == Init /\ [][Next]_vars

----------------------------------------------------------------------------
(* is_critical_news on its own *)

ClsSources == {"CERT-In", "NASSCOM", "The Hindu", "Blog"}

ClsHeadlines ==
    {"", "Critical flaw", "Weekly notes", "Hack and Exploit", "Patch advisory",
     "Data Breach", "Malware", "Security update available", "URGENT ransomware"}

ClsContents == {"", "threat alert", "attack", "cybersecurity", "severe", NaN}

InitClassify ==
    /\ InitDispatcher(AbsentFile)
    /\ dg = DgIdle
    /\ sc = ScIdle
    /\ rg = RgIdle
    /\ \E s \in ClsSources, h \in ClsHeadlines, c \in ClsContents :
          cls = [called |-> FALSE, source |-> s, headline |-> h, content |-> c,
                 verdict |-> Verdict(FALSE, "")]

Classify ==
    /\ ~cls.called
    /\ cls' = [cls EXCEPT !.called = TRUE,
                          !.verdict = is_critical_news(cls.headline, cls.content, cls.source)]
    /\ UNCHANGED <<dispatcherVars, dg, sc, rg>>

NextClassify == Classify

SpecClassify == InitClassify /\ [][NextClassify]_vars

----------------------------------------------------------------------------
(* get_critical_news_digest, send_digest_alert *)

MaxDigest == 4      \* longest news_df given to the digest
MaxItems == 4       \* largest max_items

priority_source_points ==
    <<<<"CERT-In", 10>>, <<"NCIIPC", 9>>, <<"I4C", 8>>, <<"NASSCOM", 7>>,
      <<"The Economic Times", 5>>, <<"The Hindu", 5>>, <<"Times of India", 5>>,
      <<"India Today", 5>>>>

severity_scores ==
    <<<<"critical", 10>>, <<"urgent", 10>>, <<"emergency", 10>>, <<"severe", 9>>,
      <<"zero-day", 9>>, <<"zero day", 9>>, <<"ransomware", 8>>,
      <<"remote code execution", 8>>, <<"data breach", 8>>,
      <<"national security", 8>>, <<"vulnerability", 7>>, <<"exploit", 7>>,
      <<"breach", 6>>, <<"attack", 6>>, <<"compromise", 6>>, <<"warning", 5>>,
      <<"malware", 5>>, <<"backdoor", 5>>, <<"data leak", 5>>, <<"hack", 5>>,
      <<"phishing campaign", 5>>, <<"alert", 4>>, <<"security update", 3>>,
      <<"patch", 3>>, <<"advisory", 3>>, <<"update available", 2>>,
      <<"security issue", 2>>, <<"cybersecurity", 1>>, <<"threat", 1>>>>

MinDigestScore == 10

\* dict.get(key, 0) on a dict written as a list of pairs
RECURSIVE dict_get(_, _)
dict_get(d, key) ==
    IF d = <<>> THEN 0
    ELSE IF Head(d)[1] = key THEN Head(d)[2]
    ELSE dict_get(Tail(d), key)

\* the loop of lines 348-350
RECURSIVE keyword_score(_, _)
keyword_score(d, combined_text) ==
    IF d = <<>> THEN 0
    ELSE (IF str_in(lower(Head(d)[1]), combined_text) THEN Head(d)[2] ELSE 0)
             + keyword_score(Tail(d), combined_text)

\* a score that looks for the keywords in the headline only
criticality_score_headline_only(row) ==
    LET headline == IF isinstance_str(row.headline) THEN lower(row.headline) ELSE ""
    IN  dict_get(priority_source_points, row.source)
            + keyword_score(severity_scores, headline)

\* lines 338-350
criticality_score(row) ==
    LET headline == IF isinstance_str(row.headline) THEN lower(row.headline) ELSE ""
        content  == IF isinstance_str(row.content) THEN lower(row.content) ELSE ""
    IN  dict_get(priority_source_points, row.source)
            + keyword_score(severity_scores, headline \o " " \o content)

dA    == Row("CERT-In", "Hack", "", "2024-02-01", "")
dB    == Row("CERT-In", "Critical", "URGENT", "2024-02-02", "")
dC    == Row("The Hindu", "critical", "", "2024-02-03", "")
dTen  == Row("Blog", NaN, "Urgent", "2024-02-04", "")
dNine == Row("Blog", "Severe", NaN, "2024-02-05", "")

DigestRows == {dA, dB, dC, dTen, dNine}

\* criticality_score of each row, evaluated once
RowScore == [row \in DigestRows |-> criticality_score(row)]

Scored(row, score) ==
    [source |-> row.source, headline |-> row.headline, content |-> row.content,
     date |-> row.date, url |-> row.url, criticality_score |-> score]

\* lines 337-356: the rows at or above the threshold, in input order
RECURSIVE scored_items(_)
scored_items(news_df) ==
    IF news_df = <<>> THEN <<>>
    ELSE LET score == RowScore[Head(news_df)]
         IN  (IF score >= MinDigestScore THEN <<Scored(Head(news_df), score)>> ELSE <<>>)
                 \o scored_items(Tail(news_df))

\* an unstable sort: an item goes before the items of equal score
RECURSIVE insert_desc_unstable(_, _)
insert_desc_unstable(sorted, item) ==
    IF sorted = <<>> THEN <<item>>
    ELSE IF Head(sorted).criticality_score > item.criticality_score
    THEN <<Head(sorted)>> \o insert_desc_unstable(Tail(sorted), item)
    ELSE <<item>> \o sorted

\* list.sort(key=criticality_score, reverse=True): stable, equal keys keep their order
RECURSIVE insert_desc(_, _)
insert_desc(sorted, item) ==
    IF sorted = <<>> THEN <<item>>
    ELSE IF Head(sorted).criticality_score >= item.criticality_score
    THEN <<Head(sorted)>> \o insert_desc(Tail(sorted), item)
    ELSE <<item>> \o sorted

RECURSIVE sort_desc(_)
sort_desc(l) ==
    IF l = <<>> THEN <<>>
    ELSE insert_desc(sort_desc(SubSeq(l, 1, Len(l) - 1)), l[Len(l)])

\* a digest that leaves out the rows already alerted on
get_critical_news_digest_unalerted(news_df, max_items) ==
    take(sort_desc(scored_items(
             SelectSeq(news_df, LAMBDA row : news_id(row) \notin Keys(file)))),
         max_items)

get_critical_news_digest(news_df, max_items) ==
    take(sort_desc(scored_items(news_df)), max_items)

\* lines 382-383
RECURSIVE digest_lines(_, _)
digest_lines(items, i) ==
    IF items = <<>> THEN ""
    ELSE ToString(i) \o ". " \o fstr(Head(items).source) \o ": "
             \o fstr(Head(items).headline) \o "\n" \o digest_lines(Tail(items), i + 1)

DigestTop == 3

\* a message that lists every item and counts none
digest_message_all(digest_items) ==
    "SECURITY DIGEST: Top Critical News\n\n" \o digest_lines(digest_items, 1)

digest_message(digest_items) ==
    "SECURITY DIGEST: Top Critical News\n\n"
        \o digest_lines(take(digest_items, DigestTop), 1)
        \o (IF Len(digest_items) > DigestTop
            THEN "\n+" \o ToString(Len(digest_items) - DigestTop) \o " more critical alerts."
            ELSE "")

\* send_digest_alert without the check of line 375
send_digest_alert_unguarded(phone_number, digest_items, twilio_set, transport) ==
    LET ok == send_sms_alert(twilio_set, transport)
    IN  [ret |-> ok,
         outbox |-> <<[to |-> phone_number, body |-> digest_message(digest_items),
                       ok |-> ok]>>]

\* the value returned and the messages handed to send_sms_alert
send_digest_alert(phone_number, digest_items, twilio_set, transport) ==
    IF digest_items = <<>>
    THEN [ret |-> FALSE, outbox |-> <<>>]
    ELSE LET ok == send_sms_alert(twilio_set, transport)
         IN  [ret |-> ok,
              outbox |-> <<[to |-> phone_number, body |-> digest_message(digest_items),
                            ok |-> ok]>>]

DigestBatches == SeqsUpTo(DigestRows, MaxDigest)

\* histories the dispatcher can have left behind
DigestHistories ==
    {AbsentFile,
     Document("object", ListVal(<<news_id(dB), news_id(dC)>>), isoformat(1))}

InitDigest ==
    /\ \E f \in DigestHistories : InitDispatcher(f)
    /\ cls = ClsIdle
    /\ sc = ScIdle
    /\ rg = RgIdle
    /\ \E b \in DigestBatches, m \in 0..MaxItems :
          dg = [DgIdle EXCEPT !.news_df = b, !.max_items = m]

Digest ==
    /\ dg.op = "none"
    /\ dg' = [dg EXCEPT !.op = "digest",
                        !.items = get_critical_news_digest(dg.news_df, dg.max_items)]
    /\ UNCHANGED <<dispatcherVars, cls, sc, rg>>

SendDigest(phone_number) ==
    /\ dg.op = "digest"
    /\ \E transport \in BOOLEAN :
          LET r == send_digest_alert(phone_number, dg.items, creds, transport)
          IN  dg' = [dg EXCEPT !.op = "sent", !.to = phone_number,
                               !.ret = r.ret, !.outbox = r.outbox]
    /\ UNCHANGED <<dispatcherVars, cls, sc, rg>>

NextDigest ==
    \/ Digest
    \/ \E phone_number \in Phones : SendDigest(phone_number)

SpecDigest == InitDigest /\ [][NextDigest]_vars

----------------------------------------------------------------------------
(* The criticality score on its own, of a record and of the record with text *)
(* added to its headline or to its content                                   *)

ScSources == {"CERT-In", "The Hindu", "Blog"}

ScHeadlines == {"", "Zero", "Data", "Hack hack", NaN}

ScContents == {"", "day alert", "breach", "Severe threat", NaN}

ScAdded == {" trust", "Patch ", "x"}

ScPlaces == {"headline_start", "headline_end", "content_start", "content_end"}

\* the field with the text added; a field that held no string holds the text
with_added(v, added, before) ==
    IF ~isinstance_str(v) THEN added
    ELSE IF before THEN added \o v
    ELSE v \o added

ScRow == Row(sc.source, sc.headline, sc.content, "2024-03-01", "")

ScRowAdded ==
    Row(sc.source,
        IF sc.at = "headline_start" THEN with_added(sc.headline, sc.added, TRUE)
        ELSE IF sc.at = "headline_end" THEN with_added(sc.headline, sc.added, FALSE)
        ELSE sc.headline,
        IF sc.at = "content_start" THEN with_added(sc.content, sc.added, TRUE)
        ELSE IF sc.at = "content_end" THEN with_added(sc.content, sc.added, FALSE)
        ELSE sc.content,
        "2024-03-01", "")

InitScore ==
    /\ InitDispatcher(AbsentFile)
    /\ cls = ClsIdle
    /\ dg = DgIdle
    /\ rg = RgIdle
    /\ \E s \in ScSources, h \in ScHeadlines, c \in ScContents,
          a \in ScAdded, at \in ScPlaces :
          sc = [called |-> FALSE, source |-> s, headline |-> h, content |-> c,
                added |-> a, at |-> at, score |-> 0, score_added |-> 0]

Score ==
    /\ ~sc.called
    /\ sc' = [sc EXCEPT !.called = TRUE,
                        !.score = criticality_score(ScRow),
                        !.score_added = criticality_score(ScRowAdded)]
    /\ UNCHANGED <<dispatcherVars, cls, dg, rg>>

NextScore == Score

SpecScore == InitScore /\ [][NextScore]_vars

----------------------------------------------------------------------------
(* The dispatcher on a store whose file holds anything *)

MaxStoreRuns == 1   \* calls made on a store of any shape

StoredLists ==
    {MissingVal, NullVal, ListVal(<<>>), ListVal(<<news_id(rowA)>>),
     StrVal("CERT-In:Critical flaw in router")}

StoredChecks == {NoCheck, BadCheck, isoformat(0)}

StoreFiles ==
    {AbsentFile, InvalidFile, Document("nonobject", MissingVal, NoCheck)}
        \cup {Document("object", a, l) : a \in StoredLists, l \in StoredChecks}

StoreBatches == SeqsUpTo(Rows \ {rowNaN}, MaxBatch)

InitStore ==
    /\ \E f \in StoreFiles : InitDispatcher(f)
    /\ cls = ClsIdle
    /\ dg = DgIdle
    /\ sc = ScIdle
    /\ rg = RgIdle

CallStore(news_df, phone_number) ==
    /\ clock < MaxStoreRuns
    /\ Call(1, news_df, phone_number)
    /\ UNCHANGED rg

CallStoreAny ==
    /\ pc[1] = "idle"
    /\ clock < MaxStoreRuns
    /\ \E news_df \in StoreBatches, phone_number \in Phones :
          CallStore(news_df, phone_number)

NextStore ==
    \/ CallStoreAny
    \/ Step(1)
    \/ Finish(1)
    \/ Return(1)

SpecStore == InitStore /\ [][NextStore]_vars

----------------------------------------------------------------------------
(* The dispatcher in a process that can be stopped anywhere in the loop *)

CrashRows == {rowA, rowA2, rowN, rowNaN}

CrashBatches == SeqsUpTo(CrashRows, MaxBatch)

\* no file yet, or the file an earlier run saved after alerting on rowA
CrashFiles ==
    {AbsentFile, Document("object", ListVal(<<news_id(rowA)>>), isoformat(0))}

InitCrash ==
    /\ \E f \in CrashFiles : InitDispatcher(f)
    /\ cls = ClsIdle
    /\ dg = DgIdle
    /\ sc = ScIdle
    /\ rg = RgIdle

CallCrash(p) ==
    /\ pc[p] = "idle"
    /\ \E news_df \in CrashBatches, phone_number \in Phones :
          Call(p, news_df, phone_number)
    /\ UNCHANGED rg

\* The process ends between the load of line 152 and the save of line 202:
\* what check_for_alerts held in memory is gone, the file is as it was.
Crash(p) ==
    /\ pc[p] = "loop"
    /\ pc' = [pc EXCEPT ![p] = "idle"]
    /\ batch' = [batch EXCEPT ![p] = <<>>]
    /\ phone' = [phone EXCEPT ![p] = None]
    /\ history' = [history EXCEPT ![p] = EmptyHistory]
    /\ idx' = [idx EXCEPT ![p] = 1]
    /\ critical_items' = [critical_items EXCEPT ![p] = <<>>]
    /\ alerts_sent' = [alerts_sent EXCEPT ![p] = 0]
    /\ sends' = [sends EXCEPT ![p] = <<>>]
    /\ result' = [result EXCEPT ![p] = NoResult]
    /\ io' = [io EXCEPT ![p] = NoIo]
    /\ prev' = [sent_saved |-> {},
                failed |-> FailedRows(batch[p], sends[p]),
                stopped |-> Stopped(p, sends[p])]
    /\ UNCHANGED <<file, creds, clock, cls, dg, sc, rg>>

NextCrash ==
    \/ CallCrash(1)
    \/ Step(1)
    \/ Finish(1)
    \/ Return(1)
    \/ Crash(1)

SpecCrash == InitCrash /\ [][NextCrash]_vars

----------------------------------------------------------------------------
(* Two invocations of the dispatcher on one history file *)

ConcurrentRows == {rowA, rowH}

ConcurrentBatches == SeqsUpTo(ConcurrentRows, MaxBatch)

\* app.py calls check_for_alerts from the scrape (line 119) and from the
\* button (line 424); nothing in check_for_alerts keeps two calls apart.
CallConcurrent(p) ==
    /\ pc[p] = "idle"
    /\ \E news_df \in ConcurrentBatches, phone_number \in Phones :
          Call(p, news_df, phone_number)
    /\ UNCHANGED rg

NextConcurrent ==
    \E p \in Procs :
        \/ CallConcurrent(p)
        \/ Step(p)
        \/ Finish(p)
        \/ Return(p)

SpecConcurrent == Init /\ [][NextConcurrent]_vars

----------------------------------------------------------------------------
(* The registered destination: register_phone_for_alerts,                  *)
(* get_registered_phone, run_alert_system                                   *)

Whitespace == {" ", "\t", "\n"}

Digits == {"0", "1", "2", "3", "4", "5", "6", "7", "8", "9"}

RECURSIVE lstrip(_)
lstrip(s) ==
    IF Len(s) > 0 /\ SubSeq(s, 1, 1) \in Whitespace
    THEN lstrip(SubSeq(s, 2, Len(s)))
    ELSE s

RECURSIVE rstrip(_)
rstrip(s) ==
    IF Len(s) > 0 /\ SubSeq(s, Len(s), Len(s)) \in Whitespace
    THEN rstrip(SubSeq(s, 1, Len(s) - 1))
    ELSE s

\* str.strip()
strip(s) == rstrip(lstrip(s))

\* ''.join(c for c in s if c.isdigit()), on ASCII text
RECURSIVE only_digits(_)
only_digits(s) ==
    IF Len(s) = 0 THEN ""
    ELSE (IF SubSeq(s, 1, 1) \in Digits THEN SubSeq(s, 1, 1) ELSE "")
             \o only_digits(SubSeq(s, 2, Len(s)))

\* lines 215-222: strip, put a '+' in front if there is none, keep the digits
normalized(phone_number) ==
    LET stripped == strip(phone_number)
        plus == IF starts_with("+", stripped) THEN stripped ELSE "+" \o stripped
    IN  "+" \o only_digits(SubSeq(plus, 2, Len(plus)))

\* line 211: `not phone_number or not phone_number.strip()`
is_empty(phone_number) ==
    phone_number = None \/ phone_number = "" \/ strip(phone_number) = ""

MinPhoneLen == 10

\* a registration that writes the file before it looks at the length
register_phone_for_alerts_unchecked(phone_number, stored, outcome) ==
    IF is_empty(phone_number)
    THEN [ret |-> <<FALSE, "Phone number cannot be empty">>, stored |-> stored]
    ELSE IF Len(normalized(phone_number)) < MinPhoneLen
    THEN [ret |-> <<FALSE, "Phone number is too short">>,
          stored |-> normalized(phone_number)]
    ELSE [ret |-> <<TRUE, "Successfully registered " \o normalized(phone_number)
                              \o " for alerts">>,
          stored |-> normalized(phone_number)]

\* Lines 209-236.  outcome: how open(..., 'w') and f.write went; the open
\* truncates the file, so a write that fails leaves it empty.
register_phone_for_alerts(phone_number, stored, outcome) ==
    IF is_empty(phone_number)
    THEN [ret |-> <<FALSE, "Phone number cannot be empty">>, stored |-> stored]
    ELSE IF Len(normalized(phone_number)) < MinPhoneLen
    THEN [ret |-> <<FALSE, "Phone number is too short">>, stored |-> stored]
    ELSE CASE outcome = "ok" ->
                [ret |-> <<TRUE, "Successfully registered " \o normalized(phone_number)
                                     \o " for alerts">>,
                 stored |-> normalized(phone_number)]
           [] outcome = "open_failed" ->
                [ret |-> <<FALSE, "Error registering phone number: open">>,
                 stored |-> stored]
           [] outcome = "write_failed" ->
                [ret |-> <<FALSE, "Error registering phone number: write">>,
                 stored |-> ""]

\* Lines 238-247.  readError: open() or read() raises.
get_registered_phone(stored, readError) ==
    IF readError THEN None
    ELSE IF stored = None THEN None
    ELSE strip(stored)

\* a test for None in place of `not phone_number`
no_destination_none(phone_number) == phone_number = None

\* line 405: `if not phone_number:`
no_destination(phone_number) == ~truthy(phone_number)

RegisterInputs ==
    {None, "", "  ", "12345", "+91 12345-67890", " 919876543210", "+911234567890"}

RegisterBatches == SeqsUpTo({rowA, rowN}, MaxBatch)

\* A call of register_phone_for_alerts, between two alert runs.
Register ==
    /\ pc[1] = "idle"
    /\ \E phone_number \in RegisterInputs, outcome \in SaveOutcomes :
          LET r == register_phone_for_alerts(phone_number, rg.stored, outcome)
          IN  rg' = [stored |-> r.stored, arg |-> phone_number, called |-> TRUE,
                     ret |-> r.ret,
                     last_ok |-> IF r.ret[1] THEN normalized(phone_number)
                                 ELSE rg.last_ok,
                     read |-> "none"]
    /\ UNCHANGED <<dispatcherVars, cls, dg, sc>>

\* Lines 392-410, with news_df supplied.
RunAlertSystem(p) ==
    /\ pc[p] = "idle"
    /\ clock < MaxClock
    /\ \E news_df \in RegisterBatches, readError \in BOOLEAN :
          LET phone_number == get_registered_phone(rg.stored, readError)
          IN  /\ rg' = [rg EXCEPT !.read = IF readError THEN "error" ELSE "ok"]
              /\ IF no_destination(phone_number)
                 THEN /\ pc' = [pc EXCEPT ![p] = "done"]
                      /\ batch' = [batch EXCEPT ![p] = news_df]
                      /\ phone' = [phone EXCEPT ![p] = phone_number]
                      /\ result' = [result EXCEPT ![p] = Returned(<<>>, FALSE)]
                      /\ clock' = clock + 1
                      /\ UNCHANGED <<file, creds, history, idx, critical_items,
                                     alerts_sent, sends, io, prev, cls, dg, sc>>
                 ELSE Call(p, news_df, phone_number)

NextRegister ==
    \/ Register
    \/ RunAlertSystem(1)
    \/ Step(1)
    \/ Finish(1)
    \/ Return(1)

SpecRegister == Init /\ [][NextRegister]_vars

----------------------------------------------------------------------------
(* Claims *)

Done(p) == pc[p] \in {"done", "raised"}

Processed(p) == 1..(idx[p] - 1)

SendsOf(p) == {sends[p][j] : j \in 1..Len(sends[p])}

CriticalIds(p) == {RowId[critical_items[p][j]] : j \in 1..Len(critical_items[p])}

\* C1 as stated: in the run after one that sent a key and saved the history,
\* no send is made for that key and no critical item carries it.
C1_Original ==
    (pc[1] = "loop" /\ truthy(phone[1])) =>
        /\ \A s \in SendsOf(1) : s.id \notin prev.sent_saved
        /\ CriticalIds(1) \cap prev.sent_saved = {}

\* C1 amended: the same, in a run whose load read the saved file.
C1_Dedup ==
    (pc[1] = "loop" /\ io[1].load = "file") =>
        /\ \A s \in SendsOf(1) : s.id \notin prev.sent_saved
        /\ CriticalIds(1) \cap prev.sent_saved = {}

C1_Witness ==
    /\ pc[1] = "loop"
    /\ io[1].load = "file"
    /\ \E i \in Processed(1) :
          /\ batch[1][i] = rowA2
          /\ RowId[rowA2] \in prev.sent_saved

\* C2 as stated: a run with an absent or empty destination on a non-empty
\* batch sends nothing, leaves the file alone and returns ([], False).
C2_NoDestination ==
    [][(phone'[1] \in {None, ""} /\ batch'[1] # <<>>) =>
          /\ file' = file
          /\ sends'[1] = <<>>
          /\ (pc'[1] = "done" => result'[1] = Returned(<<>>, FALSE))]_vars

\* C3 as stated: after a run, the key of a record whose send failed is not in
\* the persisted history.
C3_Original ==
    Done(1) => \A s \in SendsOf(1) : ~s.ok => s.id \notin Keys(file)

FailedOnly(p) == {s \in SendsOf(p) : ~s.ok /\ s.id \notin SentOk(sends[p])}

\* C3 amended, first half: a run adds to the persisted history no key all of
\* whose sends in the run failed.
C3_NotAdded ==
    \A s \in FailedOnly(1) : s.id \in Keys(file)' => s.id \in Keys(file)

\* C3 amended, second half: in the next run with a destination, a row whose
\* send failed is attempted again and is among the critical items, unless its
\* key is in the file or an earlier row of the batch with its key was just sent.
C3_Retried ==
    (pc[1] = "loop" /\ truthy(phone[1])) =>
        \A i \in Processed(1) :
            (batch[1][i] \in prev.failed /\ RowId[batch[1][i]] \notin Keys(file)) =>
                \/ /\ \E s \in SendsOf(1) : s.i = i
                   /\ \E j \in 1..Len(critical_items[1]) : critical_items[1][j] = batch[1][i]
                \/ \E s \in SendsOf(1) : s.i < i /\ s.ok /\ s.id = RowId[batch[1][i]]

\* C3 amended: a failed send adds no key, and the row is retried.
C3_Retry == [][C3_NotAdded]_vars /\ []C3_Retried

C3_Witness ==
    /\ pc[1] = "loop"
    /\ truthy(phone[1])
    /\ \E i \in Processed(1) :
          /\ batch[1][i] \in prev.failed
          /\ \E s \in SendsOf(1) : s.i = i

\* C4: from an absent file on, a key enters the persisted history only as the
\* key of a row of the running batch that is_critical_news found critical and
\* whose send succeeded.
C4_OnlySentKeys ==
    [][\A k \in Keys(file)' \ Keys(file) :
          \E s \in SendsOf(1) :
              /\ s.ok
              /\ s.id = k
              /\ RowId[batch[1][s.i]] = k
              /\ RowVerdict[batch[1][s.i]].critical]_vars

C4_Witness == Keys(file) # {} /\ pc[1] = "done"

\* C5 as stated: a key of the persisted history stays in it at every step.
C5_AppendOnly == [][Keys(file) \subseteq Keys(file)']_vars

Range(l) == {l[i] : i \in 1..Len(l)}

ClsText == lower(cls.headline \o " " \o cls.content)

Hits(keywords) == {k \in Range(keywords) : str_in(k, ClsText)}

\* rules (a)-(f) of the classifier, as sets of matched keywords
RuleHolds ==
    LET H == Hits(severity_high_keywords)
        M == Hits(severity_medium_keywords)
        L == Hits(severity_low_keywords)
        prio == cls.source \in Range(priority_sources)
        med  == cls.source \in Range(medium_priority_sources)
    IN  <<prio /\ Cardinality(H) >= 1,
          prio /\ Cardinality(M) >= 2,
          med /\ Cardinality(H) >= 1,
          Cardinality(H) >= 1 /\ Cardinality(M) >= 1,
          Cardinality(H \cup M \cup L) >= 3,
          TRUE>>

\* the rule a reason string names: 1..5 for (a)..(e), 6 for the empty reason
NamedRule(reason) ==
    IF starts_with("High-priority source (" \o cls.source \o ") with critical keyword: ", reason)
    THEN 1
    ELSE IF starts_with("High-priority source (" \o cls.source
                            \o ") with multiple medium-severity keywords: ", reason)
    THEN 2
    ELSE IF starts_with("Medium-priority source (" \o cls.source
                            \o ") with high-severity keyword: ", reason)
    THEN 3
    ELSE IF starts_with("High and medium severity keywords: ", reason) THEN 4
    ELSE IF starts_with("Multiple security keywords: ", reason) THEN 5
    ELSE IF reason = "" THEN 6
    ELSE 0

ClsAnswered ==
    cls.called /\ isinstance_str(cls.headline) /\ isinstance_str(cls.content)

DgScore(i) == RowScore[dg.news_df[i]]

Qualifying == {i \in 1..Len(dg.news_df) : DgScore(i) >= 10}

\* place of row i in the digest: rows of higher score first, then earlier rows
Rank(i) ==
    1 + Cardinality({j \in Qualifying :
                        \/ DgScore(j) > DgScore(i)
                        \/ DgScore(j) = DgScore(i) /\ j < i})

Smaller(a, b) == IF a < b THEN a ELSE b

\* C7: the digest is the rows of score >= 10, by descending score, equal scores
\* in input order, cut to max_items; [A(15), B(30), C(15)] with 2 gives [B, A].
C7_Digest ==
    dg.op # "none" =>
        /\ Len(dg.items) = Smaller(Cardinality(Qualifying), dg.max_items)
        /\ \A i \in Qualifying :
              Rank(i) <= dg.max_items =>
                  dg.items[Rank(i)] = Scored(dg.news_df[i], DgScore(i))
        /\ (dg.news_df = <<dA, dB, dC>> /\ dg.max_items = 2) =>
              dg.items = <<Scored(dB, 30), Scored(dA, 15)>>

C7_Witness ==
    /\ dg.op = "digest"
    /\ dg.news_df = <<dA, dB, dC>>
    /\ dg.max_items = 2
    /\ Len(dg.items) = 2

\* C8: the digest and its sending leave the history file as it is, and a row
\* is in the digest whether or not its key is in the history.
C8_DigestIgnoresHistory ==
    /\ [][dg' # dg => file' = file]_vars
    /\ [](dg.op # "none" =>
            \A i \in Qualifying :
                Rank(i) <= dg.max_items =>
                    \E j \in 1..Len(dg.items) :
                        /\ dg.items[j].source = dg.news_df[i].source
                        /\ dg.items[j].headline = dg.news_df[i].headline)

C8_Witness ==
    /\ dg.op = "digest"
    /\ \E j \in 1..Len(dg.items) :
          fstr(dg.items[j].source) \o ":" \o fstr(dg.items[j].headline) \in Keys(file)

\* C9: send_digest_alert on an empty list returns False and sends nothing.
C9_EmptyDigest ==
    (dg.op = "sent" /\ dg.items = <<>>) => (dg.ret = FALSE /\ dg.outbox = <<>>)

C9_Witness ==
    /\ dg.op = "sent"
    /\ dg.items = <<>>
    /\ creds
    /\ truthy(dg.to)

\* the file is absent, or is not an object holding a list of keys
Malformed(f) == f.kind # "object" \/ f.alerts_sent.t # "list"

\* C10 as stated: whatever the file holds, check_for_alerts does not raise, and
\* on a malformed file the history it works on holds only keys it sent itself.
C10_LoadNeverFails ==
    /\ pc[1] # "raised"
    /\ (pc[1] = "loop" /\ Malformed(file)) =>
          /\ history[1].alerts_sent.t = "list"
          /\ Keys(history[1]) \subseteq SentOk(sends[1])

\* the run of invocation p ends by a save that failed
SaveFailed(p) ==
    /\ pc[p] = "loop"
    /\ pc'[p] = "done"
    /\ io'[p].save \in {"open_failed", "write_failed"}

\* C11 as stated: when the save fails, check_for_alerts returns the critical
\* items and the any-sent flag of the batch, raises nothing, and the next load
\* gives the keys it gave before the save.
C11_SaveFailureSwallowed ==
    [][SaveFailed(1) =>
          /\ result'[1] = Returned(critical_items[1], \E s \in SendsOf(1) : s.ok)
          /\ \A readError \in BOOLEAN :
                Keys(load_alert_history(file', readError))
                    = Keys(load_alert_history(file, readError))]_vars

\* the keys the history of the run held when row i was looked at
KeysAt(p, i) ==
    (Keys(history[p]) \ SentOk(sends[p]))
        \cup {s.id : s \in {t \in SendsOf(p) : t.ok /\ t.i < i}}

\* the step looks at a row and its send fails
SendFails(p) ==
    /\ Len(sends'[p]) = Len(sends[p]) + 1
    /\ ~sends'[p][Len(sends'[p])].ok

\* C12, a failed send does not stop the batch: the loop goes on to the next row.
C12_GoesOn == SendFails(1) => (pc'[1] = "loop" /\ idx'[1] = idx[1] + 1)

\* C12, every row the loop has looked at, after failed sends or not, was sent
\* if it is critical and its key was not in the history then; and the flag
\* returned is True exactly when a send of the batch succeeded.
C12_AllExamined ==
    /\ (pc[1] \in {"loop", "done"} /\ truthy(phone[1])) =>
          \A i \in Processed(1) :
              (RowVerdict[batch[1][i]].critical /\ RowId[batch[1][i]] \notin KeysAt(1, i))
                  <=> (\E s \in SendsOf(1) : s.i = i)
    /\ (pc[1] = "done" /\ phone[1] # None) =>
          /\ result[1].kind = "returned"
          /\ result[1].any_sent = (\E s \in SendsOf(1) : s.ok)

\* C12: a failed send neither stops the batch nor decides the flag.
C12_PartialFailure == [][C12_GoesOn]_vars /\ []C12_AllExamined

\* a send failed, a later send of the same batch succeeded, the flag is True
C12_Witness ==
    /\ pc[1] = "done"
    /\ result[1].any_sent
    /\ \E s, t \in SendsOf(1) : ~s.ok /\ t.ok /\ s.i < t.i

\* the loop stands at a row that is_critical_news raises on
AtBadRecord(p) ==
    /\ pc[p] = "loop"
    /\ idx[p] <= Len(batch[p])
    /\ RowVerdict[batch[p][idx[p]]].raised

\* C13 as stated: a record whose classification fails is skipped, the loop goes
\* on with the next record, and check_for_alerts never ends by an exception.
C13_BadRecordSkipped ==
    /\ [][AtBadRecord(1) => (pc'[1] = "loop" /\ idx'[1] = idx[1] + 1)]_vars
    /\ [](pc[1] # "raised")

SamePair(r1, r2) == r1.source = r2.source /\ r1.headline = r2.headline

\* C14 as stated: in a run that starts from an empty history, a critical row
\* is passed over without a send only if a row with the same (source, headline)
\* pair was sent successfully earlier in the batch.
C14_NoCollision ==
    (pc[1] \in {"loop", "done"} /\ truthy(phone[1]) /\ io[1].load # "file") =>
        \A i \in Processed(1) :
            (RowVerdict[batch[1][i]].critical /\ ~\E s \in SendsOf(1) : s.i = i) =>
                \E s \in SendsOf(1) :
                    s.ok /\ s.i < i /\ SamePair(batch[1][s.i], batch[1][i])

ClsHigh == Hits(severity_high_keywords)

ClsMedium == Hits(severity_medium_keywords)

ClsLow == Hits(severity_low_keywords)

OneHighOnly == Cardinality(ClsHigh) = 1 /\ ClsMedium = {} /\ ClsLow = {}

\* C15: with exactly one HIGH keyword and no MEDIUM or LOW keyword in the text,
\* a PRIORITY source is critical by rule (a), naming the keyword, and a source
\* of neither list is not critical.
C15_Boundary ==
    (ClsAnswered /\ OneHighOnly) =>
        /\ cls.source \in Range(priority_sources) =>
              /\ cls.verdict.critical
              /\ \E k \in ClsHigh :
                    cls.verdict.reason = "High-priority source (" \o cls.source
                                             \o ") with critical keyword: " \o k
        /\ cls.source \notin Range(priority_sources) \cup Range(medium_priority_sources) =>
              /\ ~cls.verdict.critical
              /\ cls.verdict.reason = ""

C15_Witness ==
    /\ ClsAnswered
    /\ OneHighOnly
    /\ cls.source = "CERT-In"
    /\ cls.verdict.critical

\* C16: with no HIGH and no MEDIUM keyword in the text, three LOW keywords make
\* the record critical by rule (e) and two leave it not critical, whatever the
\* source.
C16_ThreeKeywords ==
    (ClsAnswered /\ ClsHigh = {} /\ ClsMedium = {}) =>
        /\ Cardinality(ClsLow) = 3 =>
              /\ cls.verdict.critical
              /\ NamedRule(cls.verdict.reason) = 5
        /\ Cardinality(ClsLow) = 2 =>
              /\ ~cls.verdict.critical
              /\ cls.verdict.reason = ""

C16_Witness ==
    /\ ClsAnswered
    /\ ClsHigh = {}
    /\ ClsMedium = {}
    /\ Cardinality(ClsLow) = 3
    /\ cls.verdict.critical
    /\ cls.source = "CERT-In"

\* a value that is not a string, read as the empty string
AsText(v) == IF isinstance_str(v) THEN v ELSE ""

\* C17 as stated: is_critical_news does not raise, a headline or content that
\* is not a string counts as the empty string, and the score of the digest
\* counts it so too.
C17_NonStringAsEmpty ==
    /\ cls.called =>
          /\ ~cls.verdict.raised
          /\ cls.verdict = is_critical_news(AsText(cls.headline), AsText(cls.content),
                                            cls.source)
    /\ \A row \in DigestRows :
          RowScore[row] = criticality_score(
              [row EXCEPT !.headline = AsText(@), !.content = AsText(@)])

\* C18: a verdict that is returned has a non-empty reason exactly when it is
\* critical.
C18_ReasonIffCritical ==
    (cls.called /\ ~cls.verdict.raised) =>
        ((cls.verdict.reason # "") <=> cls.verdict.critical)

C18_Witness ==
    /\ cls.called
    /\ cls.verdict.critical
    /\ NamedRule(cls.verdict.reason) = 2

\* the points of a source in the table, zero if it is not listed
SourcePoints(source) ==
    LET at == {i \in DOMAIN priority_source_points : priority_source_points[i][1] = source}
    IN  IF at = {} THEN 0 ELSE priority_source_points[CHOOSE i \in at : TRUE][2]

\* the keywords of the table that occur in a text
Present(text) == {i \in DOMAIN severity_scores : str_in(severity_scores[i][1], text)}

RECURSIVE SumWeights(_)
SumWeights(S) ==
    IF S = {} THEN 0
    ELSE LET i == CHOOSE j \in S : TRUE
         IN  severity_scores[i][2] + SumWeights(S \ {i})

\* source points plus the weight of each keyword present, each once
ScExpected ==
    SourcePoints(sc.source)
        + SumWeights(Present(lower(AsText(sc.headline)) \o " " \o lower(AsText(sc.content))))

ScSum ==
    /\ sc.score = ScExpected
    /\ sc.score \in Nat
    /\ (sc.source = "CERT-In" /\ sc.headline = "Hack hack" /\ sc.content = "") =>
          sc.score = 15

\* C19 as stated: the score is the source points plus the weights of the
\* keywords present, each once, it is a natural number, and text added
\* anywhere to the headline or the content does not lower it.
C19_Original == sc.called => (ScSum /\ sc.score_added >= sc.score)

\* C19 amended: the same, for text added before the headline or after the
\* content.
C19_Score ==
    sc.called =>
        /\ ScSum
        /\ sc.at \in {"headline_start", "content_end"} => sc.score_added >= sc.score

C19_Witness ==
    /\ sc.called
    /\ sc.headline = "Hack hack"
    /\ sc.content = "Severe threat"
    /\ sc.at = "content_end"
    /\ sc.score_added > sc.score

\* the line of the k-th item of the digest, if there is one
DgLine(k) ==
    IF k <= Len(dg.items)
    THEN ToString(k) \o ". " \o fstr(dg.items[k].source) \o ": "
             \o fstr(dg.items[k].headline) \o "\n"
    ELSE ""

DgExpected ==
    "SECURITY DIGEST: Top Critical News\n\n" \o DgLine(1) \o DgLine(2) \o DgLine(3)
        \o (IF Len(dg.items) > 3
            THEN "\n+" \o ToString(Len(dg.items) - 3) \o " more critical alerts."
            ELSE "")

C20_OneMessage ==
    (dg.op = "sent" /\ dg.items # <<>>) =>
        /\ Len(dg.outbox) = 1
        /\ dg.outbox[1].to = dg.to
        /\ dg.outbox[1].body = DgExpected
        /\ dg.ret = dg.outbox[1].ok
        /\ dg.ret => creds

\* C20: send_digest_alert on a non-empty list hands the sender one message,
\* the first three items in order with source and headline, then the count of
\* the others if there are any, returns what the sender returned, and leaves
\* the history file as it is.
C20_DigestMessage ==
    /\ []C20_OneMessage
    /\ [][(dg.op = "digest" /\ dg'.op = "sent") => file' = file]_vars

C20_Witness ==
    /\ dg.op = "sent"
    /\ Len(dg.items) = 4
    /\ dg.ret
    /\ Keys(file) # {}

\* the number of send_sms_alert calls made for row i of the batch
SendCount(p, i) == Cardinality({j \in 1..Len(sends[p]) : sends[p][j].i = i})

\* row i is critical and its key was not in the history when its turn came
Remaining(p, i) ==
    RowVerdict[batch[p][i]].critical /\ RowId[batch[p][i]] \notin KeysAt(p, i)

\* C21 as stated: when a run with a destination has ended, the sender was
\* called once for each critical row whose key was not in the history, and not
\* at all for any other row.
C21_OncePerRecord ==
    (Done(1) /\ truthy(phone[1])) =>
        \A i \in 1..Len(batch[1]) :
            SendCount(1, i) = IF Remaining(1, i) THEN 1 ELSE 0

\* the same for the rows the loop has looked at, and no send for the others
OncePerReachedRecord ==
    truthy(phone[1]) =>
        \A i \in 1..Len(batch[1]) :
            /\ i \in Processed(1) => SendCount(1, i) = IF Remaining(1, i) THEN 1 ELSE 0
            /\ i \notin Processed(1) => SendCount(1, i) = 0

\* the alerts_sent the run of invocation 1 started from; the file is the one
\* that was loaded as long as the run has not saved
LoadedIds ==
    IF io[1].load = "file" /\ file.alerts_sent.t # "missing"
    THEN file.alerts_sent
    ELSE ListVal(<<>>)

\* the key of row i was in the list when the loop came to the row
AlertedAt(i) ==
    \/ already_alerted(RowId[batch[1][i]], LoadedIds) = "yes"
    \/ \E s \in SendsOf(1) : s.ok /\ s.i < i /\ s.id = RowId[batch[1][i]]

\* the rows looked at so far that are critical and were not alerted on
NewCritical ==
    {i \in Processed(1) : RowVerdict[batch[1][i]].critical /\ ~AlertedAt(i)}

\* What the run holds is a function of the batch, the destination, the stored
\* alerts_sent and the results of the sends; the stored last_check is no
\* argument of it.
LastCheckIgnored ==
    pc[1] = "loop" =>
        /\ history[1].last_check = isoformat(clock)
        /\ Len(critical_items[1]) = Cardinality(NewCritical)
        /\ \A i \in NewCritical :
              critical_items[1][Cardinality({k \in NewCritical : k <= i})] = batch[1][i]
        /\ \A i \in Processed(1) :
              SendCount(1, i) = IF i \in NewCritical /\ truthy(phone[1]) THEN 1 ELSE 0
        /\ alerts_sent[1] = Cardinality({j \in 1..Len(sends[1]) : sends[1][j].ok})

\* C22 as stated: a run with a destination leaves its own time in the persisted
\* last_check, and the stored last_check has no part in the outcome.
C22_Original ==
    /\ (pc[1] = "done" /\ truthy(phone[1])) =>
          (file.kind = "object" /\ file.last_check = isoformat(clock))
    /\ LastCheckIgnored

\* the run of invocation p ends by a save that succeeded
SaveOk(p) ==
    /\ pc[p] = "loop"
    /\ pc'[p] = "done"
    /\ io'[p].save = "ok"

\* C22 amended: a run with a destination whose save succeeds leaves its own
\* time in the persisted last_check, and the stored last_check has no part in
\* the outcome.
C22_LastCheck ==
    /\ [][SaveOk(1) => (file'.kind = "object" /\ file'.last_check = isoformat(clock))]_vars
    /\ []LastCheckIgnored

\* a key stored beside a last_check that is no date makes the row be skipped
C22_Witness ==
    /\ pc[1] = "loop"
    /\ truthy(phone[1])
    /\ io[1].load = "file"
    /\ file.last_check = BadCheck
    /\ \E i \in Processed(1) :
          /\ RowVerdict[batch[1][i]].critical
          /\ already_alerted(RowId[batch[1][i]], LoadedIds) = "yes"
          /\ SendCount(1, i) = 0

\* the step is a write of the history file
Written == file' # file

\* the step is the save that follows the last record of the batch
SaveAtEnd(p) ==
    /\ pc[p] = "loop"
    /\ idx[p] > Len(batch[p])
    /\ pc'[p] = "done"

\* the run of invocation p stops, by the end of the process or by an exception,
\* after a send of it succeeded and before its save
StopsInWindow(p) ==
    /\ pc[p] = "loop"
    /\ pc'[p] \in {"idle", "raised"}
    /\ prev'.stopped # NoStop

\* the run is the next one after a run that stopped in the window, on the same
\* batch and with the same destination
RunAgain(p) ==
    /\ pc[p] = "loop"
    /\ prev.stopped # NoStop
    /\ batch[p] = prev.stopped.batch
    /\ phone[p] = prev.stopped.phone

\* the alert of every critical row looked at whose key was sent and lost has
\* been sent again
SentAgain(p) ==
    \A i \in Processed(p) :
        (RowVerdict[batch[p][i]].critical /\ RowId[batch[p][i]] \in prev.stopped.lost) =>
            \E s \in SendsOf(p) : s.id = RowId[batch[p][i]] /\ s.i <= i

\* C23 as stated, for the run that follows a stopped or a saved one: the keys
\* the stopped run sent are not in the file and are sent again, and no key a
\* run sent and saved is sent again by the next run.
C23_Original ==
    /\ RunAgain(1) => (prev.stopped.lost \cap Keys(file) = {} /\ SentAgain(1))
    /\ pc[1] = "loop" => \A s \in SendsOf(1) : s.id \notin prev.sent_saved

\* the file changes only by the save that follows the last record
C23_WrittenAtEnd == Written => SaveAtEnd(1)

\* a run that stops in the window leaves the file as it was, and without the
\* keys it sent if its load had not failed
C23_NotPersisted ==
    StopsInWindow(1) =>
        /\ file' = file
        /\ io[1].load # "default_error" => prev'.stopped.lost \cap Keys(file') = {}

\* the next run on the same input sends the lost alerts again, and a run whose
\* load read the file sends no key the run before it sent and saved
C23_NextRun ==
    /\ (RunAgain(1) /\ prev.stopped.load # "default_error") =>
          (prev.stopped.lost \cap Keys(file) = {} /\ SentAgain(1))
    /\ (pc[1] = "loop" /\ io[1].load = "file") =>
          \A s \in SendsOf(1) : s.id \notin prev.sent_saved

\* C23 amended: the history is written at most once per run and only after the
\* last record; a run whose load did not fail and that stops between a
\* successful send and the save leaves the key out of the file, and the next
\* run on the same input sends the alert again; a run that loads the file
\* sends no key the run before it sent and saved.
C23_Window ==
    /\ [][C23_WrittenAtEnd]_vars
    /\ [][C23_NotPersisted]_vars
    /\ []C23_NextRun

\* a run stopped after sending rowA, and the next run has sent it again
C23_Witness ==
    /\ RunAgain(1)
    /\ prev.stopped.load # "default_error"
    /\ RowId[rowA] \in prev.stopped.lost
    /\ \E s \in SendsOf(1) : s.id = RowId[rowA] /\ s.ok

\* C24 as stated, the part on one invocation at a time: a run that nothing
\* overlapped and whose save succeeds leaves in the file the keys that were
\* there and the keys of its successful sends.
C24_Original ==
    [][\A p \in Procs :
          (SaveOk(p) /\ io[p].alone) =>
              Keys(file') = Keys(file) \cup SentOk(sends[p])]_vars

\* the same for the runs whose load did not fail
C24_WhenLoaded ==
    [][\A p \in Procs :
          (SaveOk(p) /\ io[p].alone /\ io[p].load # "default_error") =>
              Keys(file') = Keys(file) \cup SentOk(sends[p])]_vars

\* two invocations are between load and save at once
NeverBothInLoop == ~(pc[1] = "loop" /\ pc[2] = "loop")

\* no record is sent by both invocations
NeverSentByBoth ==
    ~(\E s \in SendsOf(1), t \in SendsOf(2) : s.ok /\ t.ok /\ s.id = t.id)

\* after two runs that loaded and saved without a failure, the file holds what
\* both have sent
NeverLostUpdate ==
    (/\ pc[1] = "done" /\ pc[2] = "done"
     /\ io[1].save = "ok" /\ io[2].save = "ok"
     /\ io[1].load # "default_error" /\ io[2].load # "default_error"
     /\ truthy(phone[1]) /\ truthy(phone[2]))
        => SentOk(sends[1]) \cup SentOk(sends[2]) \subseteq Keys(file)

\* the send made for row i, if one was made
SendAt(p, i) == {s \in SendsOf(p) : s.i = i}

\* Skipped: the key was in the history; no classification is reported, no send
IsSkipped(p, i) ==
    /\ i \in Processed(p)
    /\ RowId[batch[p][i]] \in KeysAt(p, i)
    /\ SendAt(p, i) = {}

\* NotCritical: no send, and the key does not enter the history by this row
IsNotCritical(p, i) ==
    /\ i \in Processed(p)
    /\ RowId[batch[p][i]] \notin KeysAt(p, i)
    /\ ~RowVerdict[batch[p][i]].critical
    /\ SendAt(p, i) = {}

\* Sent: one send, which succeeded, and the key is in the history
IsSent(p, i) ==
    /\ i \in Processed(p)
    /\ RowId[batch[p][i]] \notin KeysAt(p, i)
    /\ RowVerdict[batch[p][i]].critical
    /\ SendCount(p, i) = 1
    /\ \A s \in SendAt(p, i) : s.ok
    /\ RowId[batch[p][i]] \in Keys(history[p])

\* SendFailed: one send, which failed, and the key is in the history only if
\* another row brought it there
IsSendFailed(p, i) ==
    /\ i \in Processed(p)
    /\ RowId[batch[p][i]] \notin KeysAt(p, i)
    /\ RowVerdict[batch[p][i]].critical
    /\ SendCount(p, i) = 1
    /\ \A s \in SendAt(p, i) : ~s.ok
    /\ RowId[batch[p][i]] \in Keys(history[p]) =>
          \E s \in SendsOf(p) : s.ok /\ s.i > i /\ s.id = RowId[batch[p][i]]

\* the number of the four outcomes that row i has
Outcomes(p, i) ==
    Cardinality({o \in {"Skipped", "NotCritical", "Sent", "SendFailed"} :
        CASE o = "Skipped"     -> IsSkipped(p, i)
          [] o = "NotCritical" -> IsNotCritical(p, i)
          [] o = "Sent"        -> IsSent(p, i)
          [] o = "SendFailed"  -> IsSendFailed(p, i)})

\* the critical items are the rows that were sent or failed to send, in the
\* order of the batch
ItemsAreSends(p) ==
    /\ Len(critical_items[p]) = Len(sends[p])
    /\ \A j \in 1..Len(sends[p]) : critical_items[p][j] = batch[p][sends[p][j].i]
    /\ \A j, k \in 1..Len(sends[p]) : j < k => sends[p][j].i < sends[p][k].i

\* C25 as stated: when a run with a destination has ended, every record of the
\* batch has exactly one of the four outcomes, and the critical items are the
\* Sent and SendFailed records in batch order.
C25_FourOutcomes ==
    (Done(1) /\ truthy(phone[1])) =>
        /\ \A i \in 1..Len(batch[1]) : Outcomes(1, i) = 1
        /\ ItemsAreSends(1)

\* the same for the records the loop has looked at
OutcomeOfReachedRecord ==
    truthy(phone[1]) =>
        /\ \A i \in Processed(1) : Outcomes(1, i) = 1
        /\ ItemsAreSends(1)

\* no entry of the list occurs twice
NoDuplicates(list) == \A j, k \in 1..Len(list) : list[j] = list[k] => j = k

\* the alerted keys of a history document, as a list
ListOf(f) == IF f.kind = "object" /\ f.alerts_sent.t = "list"
             THEN f.alerts_sent.list
             ELSE <<>>

\* C26: once a send for a key has succeeded, no later row of the batch with that
\* key is sent, so at most one send per key succeeds; and neither the history
\* of the run nor the saved file lists a key twice.
C26_OncePerKey ==
    /\ \A s, t \in SendsOf(1) : (s.ok /\ t.id = s.id) => t.i <= s.i
    /\ \A s \in SendsOf(1) : \A i \in Processed(1) :
          (s.ok /\ i > s.i /\ RowId[batch[1][i]] = s.id) => SendAt(1, i) = {}
    /\ NoDuplicates(ListOf(history[1]))
    /\ NoDuplicates(ListOf(file))

\* two critical rows with one key: the first was sent, the second passed over,
\* and the history was saved
C26_Witness ==
    /\ pc[1] = "done"
    /\ io[1].save = "ok"
    /\ \E s \in SendsOf(1) : \E i \in Processed(1) :
          /\ s.ok /\ i > s.i
          /\ RowId[batch[1][i]] = s.id
          /\ RowVerdict[batch[1][i]].critical
          /\ SendAt(1, i) = {}
    /\ Len(ListOf(file)) = 1

\* the step is the start of a run_alert_system call
RunStarts == pc[1] = "idle" /\ pc'[1] # "idle"

\* what alert_phone.txt registers: nothing if there is no file
Registered == IF rg.stored = None THEN None ELSE strip(rg.stored)

\* the call returns ([], False); nothing is sent, loaded or saved
ShortCircuit ==
    /\ pc'[1] = "done"
    /\ result'[1] = Returned(<<>>, FALSE)
    /\ sends'[1] = <<>>
    /\ io'[1] = NoIo
    /\ file' = file
    /\ history' = history

\* C27: run_alert_system returns ([], False) without a send, a load or a save
\* when the registered destination is absent (no file, or a file that cannot
\* be read) or empty, and is check_for_alerts on the batch and the registered
\* destination otherwise.
C27_RunAlertSystem ==
    [][RunStarts =>
          IF ~truthy(Registered) \/ rg'.read = "error"
          THEN ShortCircuit
          ELSE Call(1, batch'[1], Registered)]_vars

\* a run on a critical row with an empty alert_phone.txt has returned
C27_Witness ==
    /\ pc[1] = "done"
    /\ rg.read = "ok"
    /\ rg.stored = ""
    /\ batch[1] = <<rowA>>
    /\ result[1] = Returned(<<>>, FALSE)
    /\ io[1] = NoIo

\* a '+', then digits only, ten characters or more
WellFormed(s) ==
    /\ Len(s) >= 10
    /\ SubSeq(s, 1, 1) = "+"
    /\ \A i \in 2..Len(s) : SubSeq(s, i, i) \in Digits

\* C28 as stated: the stored destination is well formed and is the normalized
\* value of the last successful registration; a registration of a value that
\* is already normalized stores that value, and get_registered_phone returns it.
C28_StoredDestination ==
    /\ rg.last_ok # None => (WellFormed(rg.stored) /\ rg.stored = rg.last_ok)
    /\ (rg.called /\ rg.ret[1] /\ WellFormed(rg.arg)) =>
          (rg.stored = rg.arg /\ get_registered_phone(rg.stored, FALSE) = rg.arg)

\* the same where alert_phone.txt is not empty
StoredUnlessEmptied ==
    /\ (rg.last_ok # None /\ rg.stored # "") =>
          (WellFormed(rg.stored) /\ rg.stored = rg.last_ok)
    /\ (rg.called /\ rg.ret[1] /\ WellFormed(rg.arg)) =>
          (rg.stored = rg.arg /\ get_registered_phone(rg.stored, FALSE) = rg.arg)

\* the value fails the validation of lines 211 and 225
Rejected(phone_number) ==
    \/ phone_number \in {None, ""}
    \/ strip(phone_number) = ""
    \/ Len(normalized(phone_number)) < 10

\* the step is a call of register_phone_for_alerts
Registers == rg'.called /\ rg'.read = "none" /\ rg' # rg

\* C29: a registration that validation rejects returns (False, message) and
\* leaves alert_phone.txt as it was.
C29_RejectedUnchanged ==
    [][(Registers /\ Rejected(rg'.arg)) =>
          /\ rg'.ret[1] = FALSE
          /\ rg'.ret[2] # ""
          /\ rg'.stored = rg.stored]_vars

\* a number is registered, and a value that is too short was then rejected
C29_Witness ==
    /\ rg.stored = "+911234567890"
    /\ rg.arg = "12345"
    /\ rg.ret = <<FALSE, "Phone number is too short">>

\* C30: a record whose lowercased headline plus content contains 'data breach'
\* is critical whatever its source: the text matches 'data breach' of the high
\* tier and 'breach' of the medium tier.
C30_DataBreach ==
    (ClsAnswered /\ str_in("data breach", ClsText)) =>
        /\ cls.verdict.critical
        /\ "data breach" \in Hits(severity_high_keywords)
        /\ "breach" \in Hits(severity_medium_keywords)

\* 'Data Breach' from a source of neither list is critical by rule (d)
C30_Witness ==
    /\ ClsAnswered
    /\ cls.source = "Blog"
    /\ cls.headline = "Data Breach"
    /\ cls.content = ""
    /\ cls.verdict.critical
    /\ NamedRule(cls.verdict.reason) = 4

====
